---- MODULE Spec2Model ----
(***************************************************************************)
(* MCP server for local file context (src/mcp_server.py).                  *)
(*                                                                         *)
(* A file name is the sequence of its '.'-separated segments               *)
(* ("a.txt" is <<"a","txt">>, ".git" is <<"","git">>, ".." is              *)
(* <<"","","">>), a path is a sequence of names, a file's content is a     *)
(* sequence of bytes.  Python values are tagged records.                   *)
(***************************************************************************)
EXTENDS Integers, Sequences, FiniteSets, TLC

\* ------------------------------------------------------------- bounds
\* How many files a tree holds under the root.
MaxPresent == 2
\* How many input lines the server is fed before the stream is closed.
MaxLines == 3
\* scan_directory(max_files=N) is called with N in 0..MaxN.
MaxN == 2
\* max_file_size, in bytes (a command-line argument; 1 MiB by default).
max_file_size == 3

\* The default of scan_directory's max_files.
DefaultMaxFiles == 1000

VARIABLES
    self,      \* the server object's fields: root_path, max_file_size, ignored_patterns, allowed_extensions
    fs,        \* the file tree: absolute node (sequence of names) -> entry
    walk,      \* the order in which rglob('*') yields the entries under root_path
    input,     \* the lines written to the server's stdin and not read yet
    pc,        \* run_stdio's position: "read", "handle", "write", "done"; "call", "returned" for a direct call
    line,      \* the line readline() returned last
    response,  \* what handle_request returned for the line in hand
    lines,     \* every line read so far (history)
    out,       \* every response line printed so far
    exit,      \* how run_stdio ended: "running", "eof", "error"
    call       \* the last direct call of a method: [op, arg, ret]

vars == <<self, fs, walk, input, pc, line, response, lines, out, exit, call>>

\* ------------------------------------------------------------- names and paths
Dot == <<"", "">>
DotDot == <<"", "", "">>

Last(s) == s[Len(s)]
Front(s) == SubSeq(s, 1, Len(s) - 1)
IsPrefix(p, s) == Len(p) <= Len(s) /\ SubSeq(s, 1, Len(p)) = p

\* str.lower() on the segments the model's names are made of.
Lower(s) ==
    CASE s = "TXT" -> "txt"
      [] s = "PNG" -> "png"
      [] s = "MD" -> "md"
      [] OTHER -> s

\* pathlib's Path(s): '.' components are dropped, '..' components are kept.
\* A path string is [abs, parts] with the components as written.
Path(s) == [abs |-> s.abs, parts |-> SelectSeq(s.parts, LAMBDA c : c # Dot)]

\* str(path): a path without components is written '.'.
PathStr(p) ==
    IF ~p.abs /\ p.parts = <<>> THEN [abs |-> FALSE, parts |-> <<Dot>>]
    ELSE [abs |-> p.abs, parts |-> p.parts]

\* PurePath.relative_to(other): purely lexical, no '..' is resolved.
\* [ok |-> FALSE] stands for the ValueError.
relative_to(p, other) ==
    IF p.abs = other.abs /\ IsPrefix(other.parts, p.parts)
    THEN [ok |-> TRUE,
          path |-> [abs |-> FALSE,
                    parts |-> SubSeq(p.parts, Len(other.parts) + 1, Len(p.parts))]]
    ELSE [ok |-> FALSE]

\* The '/' operator: path / string.
JoinPath(p, s) ==
    IF s.abs THEN Path(s)
    ELSE [abs |-> p.abs, parts |-> p.parts \o Path(s).parts]

\* Path.name and Path.suffix.
PathName(p) == IF p.parts = <<>> THEN <<"">> ELSE Last(p.parts)

Suffix(name) ==
    IF Len(name) >= 2 /\ Last(name) # "" /\ ~(Len(name) = 2 /\ name[1] = "")
    THEN Last(name)
    ELSE ""

\* self.root_path (line 22), an absolute directory.
root_path == [abs |-> TRUE, parts |-> << <<"srv">> >>]

\* ------------------------------------------------------------- the file tree
\* What is wrong with an entry, if anything: "ENOENT" is a name that is
\* listed and cannot be followed (a dangling symbolic link), "EACCES" an
\* entry of a directory that may be listed and not searched, "late" an
\* entry that is removed once its type has been looked at, "scandir" a
\* directory that is removed before it is listed.
Err(entry) == IF "err" \in DOMAIN entry THEN entry.err ELSE "none"

\* What stat returns for the node a path has led to, `fatal` being the
\* errors that are in force at the time of the call.
StatNode(tree, cur, fatal) ==
    IF cur \notin DOMAIN tree THEN [ok |-> FALSE, node |-> cur, errno |-> "ENOENT"]
    ELSE IF Err(tree[cur]) \in fatal
         THEN [ok |-> FALSE, node |-> cur,
               errno |-> IF Err(tree[cur]) = "EACCES" THEN "EACCES" ELSE "ENOENT"]
    ELSE [ok |-> TRUE, node |-> cur, errno |-> "none"]

\* The operating system's path resolution (stat): every component but the
\* last must be a directory, '..' is the parent.  Paths are absolute.
RECURSIVE Resolve(_, _, _, _)
Resolve(tree, cur, parts, fatal) ==
    IF parts = <<>> THEN StatNode(tree, cur, fatal)
    ELSE IF cur \notin DOMAIN tree \/ tree[cur].kind # "dir"
         THEN [ok |-> FALSE, node |-> cur, errno |-> "ENOENT"]
    ELSE IF Head(parts) = DotDot
         THEN Resolve(tree, IF cur = <<>> THEN cur ELSE Front(cur), Tail(parts), fatal)
    ELSE Resolve(tree, Append(cur, Head(parts)), Tail(parts), fatal)

\* os.stat as exists() and is_file() call it.
os_stat(tree, p) == Resolve(tree, <<>>, p.parts, {"ENOENT", "EACCES"})

\* exists() and is_file() return False for the errors pathlib ignores
\* (ENOENT, ENOTDIR) and raise the others again.
stat_raises(tree, p) == os_stat(tree, p).errno = "EACCES"

exists(tree, p) == os_stat(tree, p).ok

is_file(tree, p) ==
    LET st == os_stat(tree, p) IN st.ok /\ tree[st.node].kind = "file"

\* file_path.stat(), called once the type has been looked at.
Path_stat(tree, p) == Resolve(tree, <<>>, p.parts, {"ENOENT", "EACCES", "late"})

\* Whether rglob's listing of the directory raises (an OSError other than
\* PermissionError, which rglob swallows).
scandir_raises(tree, p) ==
    p.parts \in DOMAIN tree /\ Err(tree[p.parts]) = "scandir"

\* ------------------------------------------------------------- the filter
\* A pattern '*.a.b' is [star |-> TRUE, segs |-> <<"a","b">>]; a literal
\* pattern is [star |-> FALSE, segs |-> the name].
Glob(segs) == [star |-> TRUE, segs |-> segs]
Literal(segs) == [star |-> FALSE, segs |-> segs]

ignored_patterns ==
    { Glob(<<"pyc">>), Literal(<<"__pycache__">>), Literal(<<"", "git">>),
      Literal(<<"", "gitignore">>), Literal(<<"node_modules">>),
      Literal(<<"", "vscode">>), Literal(<<"", "idea">>), Glob(<<"log">>),
      Glob(<<"tmp">>), Literal(<<"", "DS_Store">>), Literal(<<"venv">>),
      Literal(<<"", "env">>), Glob(<<"so">>), Glob(<<"dll">>), Glob(<<"exe">>),
      Glob(<<"bin">>), Glob(<<"zip">>), Glob(<<"tar", "gz">>),
      Glob(<<"jpg">>), Glob(<<"jpeg">>), Glob(<<"png">>), Glob(<<"gif">>),
      Glob(<<"bmp">>), Glob(<<"ico">>), Glob(<<"svg">>),
      Glob(<<"mp3">>), Glob(<<"mp4">>), Glob(<<"avi">>), Glob(<<"mov">>),
      Glob(<<"wav">>), Glob(<<"pdf">>) }

allowed_extensions ==
    { "py", "js", "ts", "jsx", "tsx", "html", "css", "scss",
      "json", "xml", "yaml", "yml", "md", "txt", "ini", "cfg",
      "conf", "sh", "bat", "ps1", "sql", "r", "cpp", "c",
      "h", "hpp", "java", "go", "rs", "php", "rb", "swift",
      "kt", "scala", "clj", "hs", "elm", "dart", "vue",
      "svelte", "astro", "dockerfile", "makefile", "toml" }

\* fnmatch.fnmatch(name, pattern), case-sensitive: '*.a.b' matches a name
\* that ends with '.a.b', a literal pattern matches the name equal to it.
fnmatch_name(name, pat) ==
    IF pat.star
    THEN /\ Len(name) >= Len(pat.segs) + 1
         /\ SubSeq(name, Len(name) - Len(pat.segs) + 1, Len(name)) = pat.segs
    ELSE name = pat.segs

\* fnmatch.fnmatch(str(path), pattern): '*' also matches '/', so '*.a.b'
\* matches when the string ends with '.a.b', which lies in the last
\* component; a literal pattern matches only a path that is that one name.
fnmatch_path(p, pat) ==
    IF pat.star
    THEN p.parts # <<>> /\ fnmatch_name(Last(p.parts), pat)
    ELSE ~p.abs /\ p.parts = <<pat.segs>>

should_ignore_file(p) ==
    \E pat \in ignored_patterns :
        fnmatch_path(p, pat) \/ fnmatch_name(PathName(p), pat)

\* mimetypes.guess_type on the extension (matched case-insensitively): the
\* major type, "" when the extension is unknown.
guess_type(name) ==
    LET e == Lower(Suffix(name)) IN
    CASE e \in {"csv", "htm", "txt", "html", "css"} -> "text"
      [] e \in {"png", "svg", "jpg", "gif"} -> "image"
      [] e \in {"pdf", "bin", "json", "zip"} -> "application"
      [] OTHER -> ""

is_text_file(p) ==
    \/ Lower(Suffix(PathName(p))) \in allowed_extensions
    \/ guess_type(PathName(p)) = "text"

\* The fields __init__ sets (lines 22-38).
Config ==
    [root_path |-> root_path,
     max_file_size |-> max_file_size,
     ignored_patterns |-> ignored_patterns,
     allowed_extensions |-> allowed_extensions]

\* ------------------------------------------------------------- Python values
\* None, and the strings the code builds.  A str is a word, or a prefix
\* followed by a path string (a uri), or one of the two placeholders of
\* read_file_content, or decoded text.
None == [t |-> "None"]
Str(w) == [t |-> "str", word |-> w]
Uri(prefix, s) == [t |-> "str", prefix |-> prefix, path |-> s]
Text(chars) == [t |-> "str", chars |-> chars]
PyInt(n) == [t |-> "int", n |-> n]
Dict(d) == [t |-> "dict", d |-> d]
EmptyDict == Dict([k \in {} |-> k])
Raise(exc) == [t |-> "raise", exc |-> exc]

\* dict.get(key) and dict.get(key, default); anything but a dict has no
\* attribute 'get'.
HasGet(v) == v.t = "dict"
Get(v, key, default) == IF key \in DOMAIN v.d THEN v.d[key] ELSE default

\* str.startswith('file://') and the slice [7:] behind it.
HasStartswith(v) == v.t = "str"
\* A faulty variant: any prefix is taken for 'file://'.
startswith_file_AnyPrefix(v) == "prefix" \in DOMAIN v
startswith_file(v) == "prefix" \in DOMAIN v /\ v.prefix = "file://"
StripFilePrefix(v) == v.path

\* ------------------------------------------------------------- ContentReader
\* open(..., 'r', encoding='utf-8', errors='ignore').read(): undecodable
\* bytes ("BAD") are dropped, then universal newlines turn CR LF and CR
\* into LF.
RECURSIVE Newlines(_)
Newlines(s) ==
    IF s = <<>> THEN <<>>
    ELSE IF Head(s) = "CR"
         THEN <<"LF">> \o Newlines(IF Len(s) >= 2 /\ s[2] = "LF"
                                   THEN Tail(Tail(s)) ELSE Tail(s))
    ELSE <<Head(s)>> \o Newlines(Tail(s))

Decode(bytes) == Newlines(SelectSeq(bytes, LAMBDA b : b # "BAD"))

\* f"[File too large: {size} bytes]" and f"[Error reading file: {e}]".
TooLarge(size) == [t |-> "str", too_large |-> size]
ReadError(exc) == [t |-> "str", read_error |-> exc]

\* A faulty variant: a file of exactly max_file_size bytes is too large.
read_file_content_AtLeast(tree, p) ==
    LET st == Path_stat(tree, p) IN
    IF ~st.ok THEN ReadError(IF st.errno = "EACCES" THEN "PermissionError"
                             ELSE "FileNotFoundError")
    ELSE IF Len(tree[st.node].content) >= max_file_size
         THEN TooLarge(Len(tree[st.node].content))
    ELSE IF ~tree[st.node].readable THEN ReadError("PermissionError")
    ELSE Text(Decode(tree[st.node].content))

read_file_content(tree, p) ==
    LET st == Path_stat(tree, p) IN
    IF ~st.ok THEN ReadError(IF st.errno = "EACCES" THEN "PermissionError"
                             ELSE "FileNotFoundError")
    ELSE IF Len(tree[st.node].content) > max_file_size
         THEN TooLarge(Len(tree[st.node].content))
    ELSE IF ~tree[st.node].readable THEN ReadError("PermissionError")
    ELSE Text(Decode(tree[st.node].content))

\* The 'modified' time is left out: the tree keeps no times.
get_file_info(tree, p) ==
    LET st == Path_stat(tree, p)
        rel == relative_to(p, root_path)
    IN  IF ~st.ok THEN None
        ELSE IF ~rel.ok THEN None
        ELSE Dict([path |-> PathStr(rel.path),
                   absolute_path |-> PathStr(p),
                   size |-> IF tree[st.node].kind = "file"
                            THEN Len(tree[st.node].content) ELSE 0,
                   extension |-> Suffix(PathName(p)),
                   is_text |-> is_text_file(p)])

\* ------------------------------------------------------------- DirectoryScanner
\* root_path.rglob('*'): every entry below root_path, in the order `order`.
rglob(order) == [i \in 1..Len(order) |-> [abs |-> TRUE, parts |-> order[i]]]

\* A faulty variant: the cap is tested with > in place of >=.
RECURSIVE scan_loop_OffByOne(_, _, _, _)
scan_loop_OffByOne(tree, todo, files, max_files) ==
    IF todo = <<>> THEN [files |-> files, exc |-> "none"]
    ELSE IF scandir_raises(tree, Head(todo))
         THEN [files |-> files, exc |-> "FileNotFoundError"]
    ELSE IF Len(files) > max_files THEN [files |-> files, exc |-> "none"]
    ELSE LET file_path == Head(todo)
             file_info == get_file_info(tree, file_path)
         IN  IF stat_raises(tree, file_path)
             THEN [files |-> files, exc |-> "PermissionError"]
             ELSE IF /\ is_file(tree, file_path)
                     /\ ~should_ignore_file(file_path)
                     /\ is_text_file(file_path)
                     /\ file_info # None
             THEN scan_loop_OffByOne(tree, Tail(todo), Append(files, file_info), max_files)
             ELSE scan_loop_OffByOne(tree, Tail(todo), files, max_files)

\* The loop of lines 103-111: the descriptors appended, and the exception
\* that ended the loop, if one did.  The next entry is fetched from rglob
\* before the cap is tested.
RECURSIVE scan_loop(_, _, _, _)
scan_loop(tree, todo, files, max_files) ==
    IF todo = <<>> THEN [files |-> files, exc |-> "none"]
    ELSE IF scandir_raises(tree, Head(todo))
         THEN [files |-> files, exc |-> "FileNotFoundError"]
    ELSE IF Len(files) >= max_files THEN [files |-> files, exc |-> "none"]
    ELSE LET file_path == Head(todo)
             file_info == get_file_info(tree, file_path)
         IN  IF stat_raises(tree, file_path)
             THEN [files |-> files, exc |-> "PermissionError"]
             ELSE IF /\ is_file(tree, file_path)
                     /\ ~should_ignore_file(file_path)
                     /\ is_text_file(file_path)
                     /\ file_info # None
             THEN scan_loop(tree, Tail(todo), Append(files, file_info), max_files)
             ELSE scan_loop(tree, Tail(todo), files, max_files)

\* Lines 112-115: the exception is logged and what was appended is returned.
scan_directory(tree, order, max_files) ==
    scan_loop(tree, rglob(order), <<>>, max_files).files

\* ------------------------------------------------------------- get_file_content
\* A faulty variant: the check of lines 124-125 is left out.
get_file_content_NoFilter(tree, relative_path) ==
    LET file_path == JoinPath(root_path, relative_path)
        content == read_file_content(tree, file_path)
        file_info == get_file_info(tree, file_path)
    IN  IF stat_raises(tree, file_path) THEN None
        ELSE IF ~exists(tree, file_path) \/ ~is_file(tree, file_path) THEN None
        ELSE IF file_info # None /\ content # None
             THEN Dict([path |-> file_info.d.path,
                        absolute_path |-> file_info.d.absolute_path,
                        size |-> file_info.d.size,
                        extension |-> file_info.d.extension,
                        is_text |-> file_info.d.is_text,
                        content |-> content])
        ELSE None

get_file_content(tree, relative_path) ==
    LET file_path == JoinPath(root_path, relative_path)
        content == read_file_content(tree, file_path)
        file_info == get_file_info(tree, file_path)
    IN  IF stat_raises(tree, file_path) THEN None
        ELSE IF ~exists(tree, file_path) \/ ~is_file(tree, file_path) THEN None
        ELSE IF should_ignore_file(file_path) \/ ~is_text_file(file_path) THEN None
        ELSE IF file_info # None /\ content # None
             THEN Dict([path |-> file_info.d.path,
                        absolute_path |-> file_info.d.absolute_path,
                        size |-> file_info.d.size,
                        extension |-> file_info.d.extension,
                        is_text |-> file_info.d.is_text,
                        content |-> content])
        ELSE None

\* ------------------------------------------------------------- RequestDispatcher
ProtocolError(request_id, code, message) ==
    Dict([id |-> request_id, error |-> [code |-> code, message |-> message]])

InitializeResult ==
    [protocolVersion |-> "2024-11-05",
     capabilities |-> [resources |-> [subscribe |-> FALSE, listChanged |-> FALSE],
                       tools |-> "{}", prompts |-> "{}"],
     serverInfo |-> [name |-> "local-files-mcp-server", version |-> "1.0.0"]]

\* A faulty variant: the uri is built from the relative path.
Resource_RelativeUri(file_info) ==
    [uri |-> Uri("file://", file_info.d.path),
     name |-> file_info.d.path,
     description |-> <<"Local file: ", file_info.d.path, file_info.d.size, " bytes">>,
     mimeType |-> "text/plain"]

Resource(file_info) ==
    [uri |-> Uri("file://", file_info.d.absolute_path),
     name |-> file_info.d.path,
     description |-> <<"Local file: ", file_info.d.path, file_info.d.size, " bytes">>,
     mimeType |-> "text/plain"]

list_resources(tree, order) ==
    LET files == scan_directory(tree, order, DefaultMaxFiles)
    IN  [i \in 1..Len(files) |-> Resource(files[i])]

\* The 'resources/read' branch, lines 184-209, with the exceptions it can
\* raise as Raise values for the handler of line 220.
read_resource(tree, request_id, params) ==
    IF ~HasGet(params) THEN Raise("AttributeError")
    ELSE LET uri == Get(params, "uri", Str("")) IN
    IF ~HasStartswith(uri) THEN Raise("AttributeError")
    ELSE LET not_found == ProtocolError(request_id, -32602, <<"Resource not found: ", uri>>) IN
    IF ~startswith_file(uri) THEN not_found
    ELSE LET file_path == StripFilePrefix(uri)
             rel == relative_to(Path(file_path), root_path)
         IN  IF ~rel.ok THEN Raise("ValueError")
             ELSE LET file_data == get_file_content(tree, PathStr(rel.path)) IN
                  IF file_data # None
                  THEN Dict([id |-> request_id,
                             result |-> [contents |->
                                 << [uri |-> uri, mimeType |-> "text/plain",
                                     text |-> file_data.d.content] >>]])
                  ELSE not_found

\* A faulty variant: what ends the scan's loop is not caught in
\* scan_directory.
dispatch_ScanErrorEscapes(tree, order, req) ==
    IF ~HasGet(req) THEN Raise("AttributeError")
    ELSE LET method == Get(req, "method", None)
             params == Get(req, "params", EmptyDict)
             request_id == Get(req, "id", None)
             scan == scan_loop(tree, rglob(order), <<>>, DefaultMaxFiles)
         IN  IF method = Str("initialize")
             THEN Dict([id |-> request_id, result |-> InitializeResult])
             ELSE IF method = Str("resources/list")
             THEN IF scan.exc # "none" THEN Raise(scan.exc)
                  ELSE Dict([id |-> request_id,
                             result |-> [resources |-> list_resources(tree, order)]])
             ELSE IF method = Str("resources/read")
             THEN read_resource(tree, request_id, params)
             ELSE ProtocolError(request_id, -32601, <<"Method not found: ", method>>)

\* A faulty variant: the last branch looks into params before it answers.
dispatch_InspectsParams(tree, order, req) ==
    IF ~HasGet(req) THEN Raise("AttributeError")
    ELSE LET method == Get(req, "method", None)
             params == Get(req, "params", EmptyDict)
             request_id == Get(req, "id", None)
         IN  IF method = Str("initialize")
             THEN Dict([id |-> request_id, result |-> InitializeResult])
             ELSE IF method = Str("resources/list")
             THEN Dict([id |-> request_id,
                        result |-> [resources |-> list_resources(tree, order)]])
             ELSE IF method = Str("resources/read")
             THEN read_resource(tree, request_id, params)
             ELSE IF ~HasGet(params) THEN Raise("AttributeError")
             ELSE ProtocolError(request_id, -32601, <<"Method not found: ", method>>)

\* The body of the try block, lines 141-218.
dispatch(tree, order, req) ==
    IF ~HasGet(req) THEN Raise("AttributeError")
    ELSE LET method == Get(req, "method", None)
             params == Get(req, "params", EmptyDict)
             request_id == Get(req, "id", None)
         IN  IF method = Str("initialize")
             THEN Dict([id |-> request_id, result |-> InitializeResult])
             ELSE IF method = Str("resources/list")
             THEN Dict([id |-> request_id,
                        result |-> [resources |-> list_resources(tree, order)]])
             ELSE IF method = Str("resources/read")
             THEN read_resource(tree, request_id, params)
             ELSE ProtocolError(request_id, -32601, <<"Method not found: ", method>>)

\* The handler of lines 220-228: request.get('id') is evaluated again, and
\* what it raises leaves handle_request.
\* A faulty variant: the internal error does not echo the id.
internal_error_NoId(req, exc) ==
    IF ~HasGet(req) THEN Raise("AttributeError")
    ELSE ProtocolError(None, -32603, <<"Internal error: ", exc>>)

internal_error(req, exc) ==
    IF ~HasGet(req) THEN Raise("AttributeError")
    ELSE ProtocolError(Get(req, "id", None), -32603, <<"Internal error: ", exc>>)

handle_request(tree, order, req) ==
    LET r == dispatch(tree, order, req) IN
    IF r.t = "raise" THEN internal_error(req, r.exc) ELSE r

\* ------------------------------------------------------------- StdioTransport
\* A line of input is what it is made of: the text of a JSON value, or text
\* that is no JSON (empty once stripped, or cut short); readline() returns
\* the empty string at the end of input.
JsonLine(v) == [kind |-> "json", value |-> v]
BadLine(what) == [kind |-> "text", what |-> what]
Eof == [kind |-> "eof"]

\* json.loads(line.strip())
json_loads(l) ==
    IF l.kind = "json" THEN l.value ELSE Raise("JSONDecodeError")

\* ------------------------------------------------------------- the trees
Srv == <<"srv">>
Node(names) == <<Srv>> \o names

FixedTree ==
    ( <<>> :> [kind |-> "dir"] ) @@
    ( <<Srv>> :> [kind |-> "dir"] ) @@
    ( Node(<< <<"sub">> >>) :> [kind |-> "dir"] ) @@
    ( Node(<< <<"", "git">> >>) :> [kind |-> "dir"] ) @@
    ( Node(<< <<"d", "md">> >>) :> [kind |-> "dir"] ) @@
    ( << <<"etc">> >> :> [kind |-> "dir"] ) @@
    ( << <<"etc">>, <<"s", "txt">> >> :>
        [kind |-> "file", content |-> <<"s">>, readable |-> TRUE] )

Candidates ==
    { Node(<< <<"a", "txt">> >>),
      Node(<< <<"B", "TXT">> >>),
      Node(<< <<"c", "csv">> >>),
      Node(<< <<"p", "png">> >>),
      Node(<< <<"sub">>, <<"n", "md">> >>),
      Node(<< <<"", "git">>, <<"h", "md">> >>) }

\* The contents a file can have: small, undecodable in part and with a
\* CR LF, of exactly max_file_size bytes, larger than max_file_size.
Small == <<"h", "i">>
Lossy == <<"CR", "LF", "BAD">>
Full == [i \in 1..max_file_size |-> "x"]
Big == [i \in 1..(max_file_size + 1) |-> "x"]
File(content, readable) ==
    [kind |-> "file", content |-> content, readable |-> readable]

\* a.txt is also tried empty, of exactly max_file_size bytes and without the
\* permission to open it; the content of p.png, which no operation opens,
\* is not varied.
FileStates(node) ==
    IF node = Node(<< <<"a", "txt">> >>)
    THEN { File(c, TRUE) : c \in {<<>>, Small, Lossy, Full, Big} } \cup { File(Small, FALSE) }
    ELSE IF node = Node(<< <<"p", "png">> >>)
    THEN { File(Small, TRUE) }
    ELSE { File(c, TRUE) : c \in {Small, Lossy, Big} }

\* The trees that hold at most n of the candidates, each in one of the
\* states given for it.
TreesWith(states, cands, n) ==
    UNION { { FixedTree @@ st :
                st \in { f \in [P -> UNION { states[c] : c \in P }] :
                           \A c \in P : f[c] \in states[c] } } :
            P \in { Q \in SUBSET cands : Cardinality(Q) <= n } }

TreesOver(cands, n) == TreesWith([c \in cands |-> FileStates(c)], cands, n)

Trees == TreesOver(Candidates, MaxPresent)

\* Trees with entries whose stat or listing fails.
Failing(err) == [kind |-> "file", content |-> Small, readable |-> TRUE, err |-> err]
GoneDir == [kind |-> "dir", err |-> "scandir"]

FaultCandidates ==
    { Node(<< <<"a", "txt">> >>),
      Node(<< <<"B", "TXT">> >>),
      Node(<< <<"c", "csv">> >>),
      Node(<< <<"sub">>, <<"n", "md">> >>),
      Node(<< <<"gone">> >>) }

FaultStates(node) ==
    IF node = Node(<< <<"sub">>, <<"n", "md">> >>)
    THEN { File(Small, TRUE) } \cup { Failing(e) : e \in {"ENOENT", "late", "EACCES"} }
    ELSE IF node = Node(<< <<"B", "TXT">> >>)
    THEN { File(Small, TRUE), Failing("ENOENT"), Failing("late") }
    ELSE IF node = Node(<< <<"gone">> >>)
    THEN { GoneDir }
    ELSE { File(Small, TRUE) }

FaultyTrees ==
    TreesWith([c \in FaultCandidates |-> FaultStates(c)], FaultCandidates, MaxPresent)

\* The entries below root_path.
IsBelowRoot(node) == Len(node) > 1 /\ node[1] = Srv
Below(tree, kind) ==
    { node \in DOMAIN tree : IsBelowRoot(node) /\ tree[node].kind = kind }

Perms(S) ==
    { s \in [1..Cardinality(S) -> S] : \A i, j \in DOMAIN s : s[i] = s[j] => i = j }

\* The traversal orders of a tree.  The directories are put first: where a
\* directory stands changes nothing, is_file() is false of it.  A directory
\* whose listing fails stands where the walk comes to list it.
Unlistable(tree) == { node \in Below(tree, "dir") : Err(tree[node]) = "scandir" }
Orders(tree) ==
    { d \o f : d \in { CHOOSE x \in Perms(Below(tree, "dir") \ Unlistable(tree)) : TRUE },
               f \in Perms(Below(tree, "file") \cup Unlistable(tree)) }

\* ------------------------------------------------------------- the requests
S(names) == [abs |-> TRUE, parts |-> names]
FileUri(names) == Uri("file://", S(names))

UriPaths ==
    { <<Srv>> \o SubSeq(c, 2, Len(c)) : c \in Candidates } \cup
    { <<Srv>>,
      <<Srv, <<"sub">>>>,
      <<Srv, <<"d", "md">>>>,
      <<Srv, <<"z", "txt">>>>,
      <<Srv, <<"a", "txt">>, <<"n", "md">>>>,
      <<Srv, Dot, <<"a", "txt">>>>,
      <<Srv, <<"sub">>, DotDot, <<"a", "txt">>>>,
      <<Srv, DotDot, <<"etc">>, <<"s", "txt">>>>,
      <<Srv, <<"z">>, DotDot, DotDot, <<"etc">>, <<"s", "txt">>>>,
      << <<"etc">>, <<"s", "txt">> >> }

UriValues ==
    { FileUri(p) : p \in UriPaths } \cup
    { Uri("file://", [abs |-> FALSE, parts |-> << <<"a", "txt">> >>]),
      Uri("http://", S(<<Srv, <<"a", "txt">>>>)),
      Str(""), Str("a.txt"), PyInt(5), None }

ParamsValues ==
    { Dict([uri |-> u]) : u \in UriValues } \cup
    { EmptyDict, [t |-> "list"], None, Str("x") }

Ids == { PyInt(1), Str("x"), None }

FewParams ==
    { Dict([uri |-> FileUri(<<Srv, <<"a", "txt">>>>)]),
      Dict([uri |-> FileUri(<< <<"etc">>, <<"s", "txt">> >>)]),
      Dict([uri |-> Str("")]), None }

ReadRequests ==
    { Dict([method |-> Str("resources/read"), id |-> PyInt(1), params |-> p]) :
        p \in ParamsValues } \cup
    { Dict([method |-> Str("resources/read"), id |-> None, params |-> p]) :
        p \in FewParams } \cup
    { Dict([method |-> Str("resources/read"), params |-> p]) : p \in FewParams } \cup
    { Dict([method |-> Str("resources/read")]),
      Dict([method |-> Str("resources/read"), id |-> Str("x")]) }

OtherRequests ==
    { Dict([method |-> m]) : m \in {Str("initialize"), Str("resources/list"), Str("foo")} } \cup
    { Dict([method |-> m, id |-> i]) :
        m \in {Str("initialize"), Str("resources/list"), Str("foo")}, i \in Ids } \cup
    { Dict([method |-> m, id |-> PyInt(1), params |-> None]) :
        m \in {Str("initialize"), Str("resources/list"), Str("foo")} } \cup
    { Dict([method |-> Str("foo"), id |-> None, params |-> p]) : p \in FewParams } \cup
    { Dict([id |-> PyInt(1)]), EmptyDict, Dict([method |-> None]),
      Dict([method |-> PyInt(3), id |-> PyInt(1)]) }

\* What json.loads can return that is no dict.
NonObjects == { [t |-> "list"], PyInt(7) }

Requests == ReadRequests \cup OtherRequests \cup NonObjects

\* ------------------------------------------------------------- direct calls
NoCall == [op |-> "none"]

InitCalls ==
    /\ self = Config
    /\ fs \in Trees
    /\ walk \in Orders(fs)
    /\ input = <<>>
    /\ pc = "call"
    /\ line = Eof
    /\ response = None
    /\ lines = <<>>
    /\ out = <<>>
    /\ exit = "running"
    /\ call = NoCall

CallHandleRequest ==
    /\ pc = "call"
    /\ \E req \in Requests :
        call' = [op |-> "handle_request", arg |-> req,
                 ret |-> handle_request(fs, walk, req)]
    /\ pc' = "returned"
    /\ UNCHANGED <<self, fs, walk, input, line, response, lines, out, exit>>

CallScanDirectory ==
    /\ pc = "call"
    /\ \E n \in 0..MaxN :
        call' = [op |-> "scan_directory", arg |-> n,
                 ret |-> scan_directory(fs, walk, n)]
    /\ pc' = "returned"
    /\ UNCHANGED <<self, fs, walk, input, line, response, lines, out, exit>>

NextCalls == CallHandleRequest \/ CallScanDirectory

SpecCalls == InitCalls /\ [][NextCalls]_vars

\* The same calls on the trees with failing entries.
InitFaults ==
    /\ self = Config
    /\ fs \in FaultyTrees
    /\ walk \in Orders(fs)
    /\ input = <<>>
    /\ pc = "call"
    /\ line = Eof
    /\ response = None
    /\ lines = <<>>
    /\ out = <<>>
    /\ exit = "running"
    /\ call = NoCall

SpecFaults == InitFaults /\ [][NextCalls]_vars

\* ------------------------------------------------------------- run_stdio
\* The lines the server is fed.
LoopRequests ==
    { Dict([method |-> Str("foo")]) } \cup
    { Dict([method |-> m, id |-> i]) :
        m \in {Str("initialize"), Str("foo")}, i \in {PyInt(1), PyInt(2)} } \cup
    { Dict([method |-> Str("resources/read"), id |-> i, params |-> Dict([uri |-> u])]) :
        i \in {PyInt(1), PyInt(2)},
        u \in { FileUri(<<Srv, <<"a", "txt">>>>),
                FileUri(<< <<"etc">>, <<"s", "txt">> >>) } }

LoopLines ==
    { JsonLine(v) : v \in LoopRequests \cup {[t |-> "list"]} } \cup
    { BadLine("{"), BadLine(" ") }

LoopTrees == TreesOver({Node(<< <<"a", "txt">> >>)}, 1)

Init ==
    /\ self = Config
    /\ fs \in LoopTrees
    /\ walk \in Orders(fs)
    /\ input = <<>>
    /\ pc = "read"
    /\ line = Eof
    /\ response = None
    /\ lines = <<>>
    /\ out = <<>>
    /\ exit = "running"
    /\ call = NoCall

\* The client at the other end of stdin writes a line.  One line is let
\* stand unread at a time.
Feed ==
    /\ pc = "read"
    /\ input = <<>>
    /\ Len(lines) < MaxLines
    /\ \E l \in LoopLines : input' = <<l>>
    /\ UNCHANGED <<self, fs, walk, pc, line, response, lines, out, exit, call>>

\* Lines 237-239: readline() returns the next line of input.
ReadLine ==
    /\ pc = "read"
    /\ input # <<>>
    /\ line' = Head(input)
    /\ input' = Tail(input)
    /\ lines' = Append(lines, Head(input))
    /\ pc' = "handle"
    /\ UNCHANGED <<self, fs, walk, response, out, exit, call>>

\* Lines 237-242: the stream is closed with nothing left in it, readline()
\* returns '' and the loop is left.
ReadEof ==
    /\ pc = "read"
    /\ input = <<>>
    /\ line' = Eof
    /\ pc' = "done"
    /\ exit' = "eof"
    /\ UNCHANGED <<self, fs, walk, input, response, lines, out, call>>

\* A faulty variant: an error envelope is not written.
HandleLine_DropsErrors ==
    /\ pc = "handle"
    /\ json_loads(line).t # "raise"
    /\ handle_request(fs, walk, json_loads(line)).t # "raise"
    /\ response' = handle_request(fs, walk, json_loads(line))
    /\ pc' = IF "error" \in DOMAIN response'.d THEN "read" ELSE "write"
    /\ UNCHANGED <<self, fs, walk, input, line, lines, out, exit, call>>

\* A faulty variant: once a request has failed with an internal error, so
\* does every request after it.
HandleLine_Sticky ==
    /\ pc = "handle"
    /\ json_loads(line).t # "raise"
    /\ handle_request(fs, walk, json_loads(line)).t # "raise"
    /\ response' = IF response # None /\ "error" \in DOMAIN response.d
                       /\ response.d.error.code = -32603
                    THEN ProtocolError(Get(json_loads(line), "id", None), -32603,
                                       <<"Internal error: ", "ValueError">>)
                    ELSE handle_request(fs, walk, json_loads(line))
    /\ pc' = "write"
    /\ UNCHANGED <<self, fs, walk, input, line, lines, out, exit, call>>

\* Lines 245-246: the line is parsed and handled.
HandleLine ==
    /\ pc = "handle"
    /\ json_loads(line).t # "raise"
    /\ handle_request(fs, walk, json_loads(line)).t # "raise"
    /\ response' = handle_request(fs, walk, json_loads(line))
    /\ pc' = "write"
    /\ UNCHANGED <<self, fs, walk, input, line, lines, out, exit, call>>

\* A faulty variant: a parse error is answered with an error envelope.
SkipLine_Responds ==
    /\ pc = "handle"
    /\ json_loads(line) = Raise("JSONDecodeError")
    /\ response' = ProtocolError(None, -32700, <<"Parse error">>)
    /\ pc' = "write"
    /\ UNCHANGED <<self, fs, walk, input, line, lines, out, exit, call>>

\* Lines 251-253: json.JSONDecodeError is logged and the loop goes on.
SkipLine ==
    /\ pc = "handle"
    /\ json_loads(line) = Raise("JSONDecodeError")
    /\ pc' = "read"
    /\ UNCHANGED <<self, fs, walk, input, line, response, lines, out, exit, call>>

\* Lines 257-258: any other exception leaves the while loop; it is logged
\* and run_stdio returns.
ServerError ==
    /\ pc = "handle"
    /\ json_loads(line).t # "raise"
    /\ handle_request(fs, walk, json_loads(line)).t = "raise"
    /\ pc' = "done"
    /\ exit' = "error"
    /\ UNCHANGED <<self, fs, walk, input, line, response, lines, out, call>>

\* A faulty variant: the response is left in a buffer and the loop goes on.
WriteResponse_Buffered ==
    /\ pc = "write"
    /\ pc' = "read"
    /\ UNCHANGED <<self, fs, walk, input, line, response, lines, out, exit, call>>

\* Line 249: print(json.dumps(response), flush=True).
WriteResponse ==
    /\ pc = "write"
    /\ out' = Append(out, response)
    /\ pc' = "read"
    /\ UNCHANGED <<self, fs, walk, input, line, response, lines, exit, call>>

Next ==
    \/ Feed
    \/ ReadLine
    \/ ReadEof
    \/ HandleLine
    \/ SkipLine
    \/ ServerError
    \/ WriteResponse

Spec == Init /\ [][Next]_vars

\* ------------------------------------------------------------- run_stdio, fed
\* The server is fed a finite sequence of lines and the stream is closed
\* behind them.  The event loop runs the one coroutine there is, so a step
\* that can be taken is taken.
FedLines ==
    { JsonLine(Dict([method |-> Str("foo"), id |-> PyInt(1)])),
      JsonLine(Dict([method |-> Str("initialize"), id |-> PyInt(2)])),
      JsonLine([t |-> "list"]),
      BadLine("{") }

FedInputs == UNION { [1..k -> FedLines] : k \in 0..MaxLines }

InitFed ==
    /\ self = Config
    /\ fs \in LoopTrees
    /\ walk \in Orders(fs)
    /\ input \in FedInputs
    /\ pc = "read"
    /\ line = Eof
    /\ response = None
    /\ lines = <<>>
    /\ out = <<>>
    /\ exit = "running"
    /\ call = NoCall

NextFed ==
    \/ ReadLine
    \/ ReadEof
    \/ HandleLine
    \/ SkipLine
    \/ ServerError
    \/ WriteResponse

SpecFed == InitFed /\ [][NextFed]_vars /\ WF_vars(NextFed)

\* ------------------------------------------------------------- the claims
\* What a direct call of handle_request was given and what it returned.
Called(op) == pc = "returned" /\ call.op = op
IsObject(v) == v.t = "dict"
IsReadCall ==
    /\ Called("handle_request")
    /\ IsObject(call.arg)
    /\ Get(call.arg, "method", None) = Str("resources/read")
ReadParams == Get(call.arg, "params", EmptyDict)
ReadUri == Get(ReadParams, "uri", Str(""))
\* The call was resources/read with a string uri that starts with 'file://'.
IsFileUriCall ==
    /\ IsReadCall
    /\ IsObject(ReadParams)
    /\ ReadUri.t = "str"
    /\ "prefix" \in DOMAIN ReadUri
    /\ ReadUri.prefix = "file://"
IsResponse(r) == r.t = "dict"
IsSuccess(r) == IsResponse(r) /\ "result" \in DOMAIN r.d
IsError(r, code) == IsResponse(r) /\ "error" \in DOMAIN r.d /\ r.d.error.code = code
\* Whether a node of the tree lies inside root_path.
InsideRoot(node) == IsPrefix(root_path.parts, node)
\* The path the uri of the call names, relative to root_path, and what
\* root_path joined with it resolves to.
UriRel == relative_to(Path(ReadUri.path), root_path)
UriTarget == JoinPath(root_path, PathStr(UriRel.path))

\* C1: resources/read returns a success response only if root_path joined
\* with the computed relative path resolves to a file inside root_path,
\* whatever '..' components the uri has.
C1_ReadStaysInsideRoot ==
    (IsFileUriCall /\ IsSuccess(call.ret)) =>
        /\ UriRel.ok
        /\ os_stat(fs, UriTarget).ok
        /\ InsideRoot(os_stat(fs, UriTarget).node)

\* C2: no line that parses as JSON ends the request loop: the loop ends only
\* when the input stream is closed.
C2_LoopEndsOnlyAtEof == pc = "done" => exit = "eof"

\* C3: resources/read with a 'file://' uri whose path is not a subpath of
\* root_path yields the not-found error -32602.
C3_OutsideRootIsNotFound ==
    (IsFileUriCall /\ ~UriRel.ok) => IsError(call.ret, -32602)

\* C4 as stated: every resources/read whose uri does not start with
\* 'file://' (absent, empty, another string, another JSON value given as
\* uri or as params) yields -32602.
C4_AnyNonFileUriIsNotFound ==
    (IsReadCall /\ ~IsFileUriCall) => IsError(call.ret, -32602)

\* C4 as amended: when params is an object (or absent) and uri is absent or
\* a string that does not start with 'file://', the response is the error
\* -32602; when params is not an object or uri is not a string, it is the
\* error -32603.  Never a result.
C4_NonFileUri ==
    (IsReadCall /\ ~IsFileUriCall) =>
        /\ ~IsSuccess(call.ret)
        /\ IF IsObject(ReadParams) /\ ReadUri.t = "str"
           THEN IsError(call.ret, -32602)
           ELSE IsError(call.ret, -32603)

C4_Witness ==
    /\ IsReadCall
    /\ IsObject(ReadParams)
    /\ ReadUri = Uri("http://", S(<<Srv, <<"a", "txt">>>>))
    /\ is_file(fs, S(<<Srv, <<"a", "txt">>>>))
    /\ IsError(call.ret, -32602)

\* C5: every response to a JSON-object request has exactly one of 'result'
\* and 'error', and its 'id' is the request's 'id', null when it has none.
C5_Envelope ==
    (Called("handle_request") /\ IsObject(call.arg)) =>
        /\ IsResponse(call.ret)
        /\ "id" \in DOMAIN call.ret.d
        /\ ("result" \in DOMAIN call.ret.d) # ("error" \in DOMAIN call.ret.d)
        /\ call.ret.d.id = Get(call.arg, "id", None)

C5_Witness ==
    /\ Called("handle_request")
    /\ IsObject(call.arg)
    /\ Get(call.arg, "id", None) = PyInt(1)
    /\ IsError(call.ret, -32603)

\* What the server has written once the loop is between two lines.
IsObjectLine(l) == l.kind = "json" /\ IsObject(l.value)
Served == IF pc \in {"handle", "write"} THEN Len(lines) - 1 ELSE Len(lines)

\* C6: when every input line is a JSON object, one response line is written
\* per request line and the k-th response carries the k-th request's id,
\* also after a request that was answered with an error.
C6_OneResponsePerRequest ==
    (pc # "call" /\ \A k \in 1..Len(lines) : IsObjectLine(lines[k])) =>
        /\ exit # "error"
        /\ Len(out) = Served
        /\ \A k \in 1..Len(out) :
            /\ IsResponse(out[k])
            /\ out[k].d.id = Get(lines[k].value, "id", None)

C6_Witness ==
    /\ pc = "read"
    /\ Len(lines) = 2
    /\ \A k \in 1..Len(lines) : IsObjectLine(lines[k])
    /\ Len(out) = 2
    /\ IsError(out[1], -32603)
    /\ out[1].d.id = PyInt(1)
    /\ out[2].d.id = PyInt(2)

\* The responses to the lines of ls, one after the other.
RECURSIVE Answers(_)
Answers(ls) ==
    IF ls = <<>> THEN <<>>
    ELSE <<handle_request(fs, walk, Head(ls).value)>> \o Answers(Tail(ls))
WellFormed(ls) == SelectSeq(ls, LAMBDA l : l.kind = "json")

Ineligible(p) ==
    LET st == os_stat(fs, p) IN
    \/ ~st.ok
    \/ fs[st.node].kind # "file"
    \/ should_ignore_file(p)
    \/ ~is_text_file(p)

C8_IneligibleIsNotFound ==
    (IsFileUriCall /\ UriRel.ok /\ Ineligible(UriTarget)) =>
        IsError(call.ret, -32602) /\ ~IsSuccess(call.ret)

C8_Witness ==
    /\ IsFileUriCall
    /\ UriRel.ok
    /\ os_stat(fs, UriTarget).ok
    /\ fs[os_stat(fs, UriTarget).node].kind = "file"
    /\ should_ignore_file(UriTarget)
    /\ IsError(call.ret, -32602)

\* The files resources/list has to show: the text files below root_path that
\* are not ignored, up to the cap in traversal order.
EligibleFiles ==
    { node \in Below(fs, "file") : ~should_ignore_file(S(node)) /\ is_text_file(S(node)) }
Position(node) == CHOOSE i \in 1..Len(walk) : walk[i] = node
WithinCap(elig, node) ==
    Cardinality({ m \in elig : Position(m) < Position(node) }) < DefaultMaxFiles
Listed == LET elig == EligibleFiles IN { node \in elig : WithinCap(elig, node) }
RelName(node) == [abs |-> FALSE, parts |-> SubSeq(node, 2, Len(node))]
IsListCall ==
    /\ Called("handle_request")
    /\ IsObject(call.arg)
    /\ Get(call.arg, "method", None) = Str("resources/list")
\* The uri a resources/list result rs gives for a file.
ListedUris(rs, node) ==
    { rs[i].uri : i \in { j \in DOMAIN rs : rs[j].name = RelName(node) } }
ReadText == call.ret.d.result.contents[1].text

\* Every listed file is in the resources/list result under its relative
\* path, and resources/read on the uri listed for it succeeds with a text
\* that is TextOk.
RoundTrip(TextOk(_)) ==
    (IsListCall \/ IsFileUriCall) =>
        LET listed == Listed
            rs == list_resources(fs, walk)
        IN  /\ IsListCall =>
                /\ IsSuccess(call.ret)
                /\ \A node \in listed :
                    \E i \in DOMAIN call.ret.d.result.resources :
                        call.ret.d.result.resources[i].name = RelName(node)
            /\ IsFileUriCall =>
                \A node \in listed :
                    ReadUri \in ListedUris(rs, node) =>
                        IsSuccess(call.ret) /\ TextOk(node)

Opens(node) == Len(fs[node].content) <= max_file_size /\ fs[node].readable
ExactText(node) == Opens(node) => ReadText = Text(fs[node].content)
DecodedText(node) ==
    /\ Opens(node) => ReadText = Text(Decode(fs[node].content))
    /\ (Opens(node) /\ \A i \in DOMAIN fs[node].content :
                           fs[node].content[i] \notin {"BAD", "CR"}) =>
            ReadText = Text(fs[node].content)

C10_ScanBounded ==
    Called("scan_directory") =>
        /\ Len(call.ret) <= call.arg
        /\ \A i \in DOMAIN call.ret :
            LET p == Path(call.ret[i].d.absolute_path) IN
            /\ os_stat(fs, p).ok
            /\ fs[os_stat(fs, p).node].kind = "file"
            /\ ~should_ignore_file(p)
            /\ is_text_file(p)

C10_Witness ==
    /\ Called("scan_directory")
    /\ call.arg = 1
    /\ Len(call.ret) = 1
    /\ Cardinality(EligibleFiles) = 2

\* The file a resources/read call names, when it is one the server serves:
\* a regular file that is not ignored and is a text file.
IsEligibleRead == IsFileUriCall /\ UriRel.ok /\ ~Ineligible(UriTarget)
TargetFile == fs[os_stat(fs, UriTarget).node]

\* C11 as stated: reading an eligible file larger than max_file_size is a
\* success whose text is the placeholder with the byte count; reading any
\* eligible file of at most max_file_size bytes is a success whose text is
\* the file's content (as the text-mode read decodes it).
C11_SmallFileIsContent ==
    IsEligibleRead =>
        /\ IsSuccess(call.ret)
        /\ ReadText = IF Len(TargetFile.content) > max_file_size
                      THEN TooLarge(Len(TargetFile.content))
                      ELSE Text(Decode(TargetFile.content))

\* C11 as amended: reading an eligible file is always a success; the text
\* is the placeholder with the byte count when the size is strictly greater
\* than max_file_size, the decoded content when the size is at most
\* max_file_size and the file can be opened, and the read-error placeholder
\* when it is at most max_file_size and cannot be opened.
C11_SizeThreshold ==
    IsEligibleRead =>
        /\ IsSuccess(call.ret)
        /\ ReadText = IF Len(TargetFile.content) > max_file_size
                      THEN TooLarge(Len(TargetFile.content))
                      ELSE IF TargetFile.readable
                      THEN Text(Decode(TargetFile.content))
                      ELSE ReadError("PermissionError")

C11_Witness ==
    /\ IsEligibleRead
    /\ Len(TargetFile.content) = max_file_size + 1
    /\ IsSuccess(call.ret)
    /\ ReadText = TooLarge(max_file_size + 1)

\* The call was a request whose method is none of the three the server knows.
KnownMethods == { Str("initialize"), Str("resources/list"), Str("resources/read") }
IsOtherCall ==
    /\ Called("handle_request")
    /\ IsObject(call.arg)
    /\ Get(call.arg, "method", None) \notin KnownMethods
\* The request without its params.
WithoutParams(req) == Dict([k \in DOMAIN req.d \ {"params"} |-> req.d[k]])

\* C12: a request whose method is none of 'initialize', 'resources/list'
\* and 'resources/read' (or that has no method) is answered with the error
\* -32601 and the request's id, null included; the answer is the one the
\* request without its params gets.
C12_MethodNotFound ==
    IsOtherCall =>
        /\ IsError(call.ret, -32601)
        /\ "result" \notin DOMAIN call.ret.d
        /\ call.ret.d.id = Get(call.arg, "id", None)
        /\ call.ret = handle_request(fs, walk, WithoutParams(call.arg))

C12_Witness ==
    /\ IsOtherCall
    /\ "params" \in DOMAIN call.arg.d
    /\ call.arg.d.params = None
    /\ "id" \in DOMAIN call.arg.d
    /\ call.arg.d.id = None
    /\ IsError(call.ret, -32601)
    /\ call.ret.d.id = None

\* The requests read so far, and how many of them have no response yet.
ObjectLines(ls) == SelectSeq(ls, IsObjectLine)
InFlight == Len(ObjectLines(lines)) - Len(out)

\* C13: at most one request is in flight, and whenever a line is read from
\* the input every request read before it has its response written, the
\* responses standing in the order of the requests.
C13_OneAtATime ==
    [][ /\ InFlight \in {0, 1}
        /\ lines' # lines =>
              /\ InFlight = 0
              /\ out = Answers(ObjectLines(lines))
              /\ out' = out ]_vars

C13_Witness ==
    /\ pc = "handle"
    /\ Len(lines) = 3
    /\ \A k \in 1..3 : IsObjectLine(lines[k])
    /\ Len(out) = 2
    /\ out = Answers(ObjectLines(Front(lines)))

\* C14: when the stream is closed with nothing left to read the loop is
\* left without error and nothing more is written; and a server fed a
\* finite sequence of lines and then the end of input comes to rest with
\* the loop left and the response to every JSON-object line that came
\* before the end of input written, and nothing else.
C14_AnswersAllThenStops ==
    /\ [][ (pc = "read" /\ input = <<>>) =>
              (pc' = "done" /\ exit' = "eof" /\ out' = out) ]_vars
    /\ <>[](pc = "done" /\ out = Answers(ObjectLines(lines \o input)))

\* The entries of the tree whose stat fails, and the entries that fail in
\* any way.
StatFails == { node \in Below(fs, "file") : Err(fs[node]) # "none" }
Faults == StatFails \cup Unlistable(fs)
Without(tree, node) == [n \in DOMAIN tree \ {node} |-> tree[n]]
WalkWithout(order, node) == SelectSeq(order, LAMBDA n : n # node)
IsInitializeCall ==
    /\ Called("handle_request")
    /\ IsObject(call.arg)
    /\ Get(call.arg, "method", None) = Str("initialize")

\* C15: initialize and resources/list answer a JSON-object request with a
\* result and never with an error, whatever params is and whatever stat or
\* listing failures the tree holds: initialize with its fixed result,
\* resources/list with a list of resources, each the uri of a file of the
\* tree.
C15_NeverAnError ==
    /\ IsInitializeCall =>
          /\ IsSuccess(call.ret)
          /\ "error" \notin DOMAIN call.ret.d
          /\ call.ret.d.result = InitializeResult
    /\ IsListCall =>
          /\ IsSuccess(call.ret)
          /\ "error" \notin DOMAIN call.ret.d
          /\ DOMAIN call.ret.d.result = {"resources"}
          /\ \A i \in DOMAIN call.ret.d.result.resources :
                \E node \in Below(fs, "file") \ StatFails :
                    call.ret.d.result.resources[i].uri = FileUri(node)

C15_Witness ==
    /\ IsListCall
    /\ \E bad \in Faults, good \in Below(fs, "file") \ StatFails :
          /\ Err(fs[bad]) \in {"EACCES", "scandir"}
          /\ Position(bad) < Position(good)
    /\ IsSuccess(call.ret)
    /\ call.ret.d.result.resources = <<>>

\* C16: a stat failure on one entry makes the scan skip that entry and no
\* other: the result is the one of the same tree without the entry.
C16_StatFailureSkipsOneEntry ==
    (Called("scan_directory") /\ Cardinality(Faults) = 1) =>
        \A node \in StatFails :
            call.ret = scan_directory(Without(fs, node), WalkWithout(walk, node), call.arg)

UnderIgnoredDir(parts) ==
    \E k \in 1..(Len(parts) - 1) :
        \E pat \in ignored_patterns : fnmatch_name(parts[k], pat)

\* C18: a file below a directory whose name is in the ignore list is in no
\* scan result and in no resources/list result, and resources/read on its
\* uri yields -32602.
C18_IgnoredDirExcluded ==
    /\ Called("scan_directory") =>
          \A i \in DOMAIN call.ret :
              ~UnderIgnoredDir(call.ret[i].d.absolute_path.parts)
    /\ IsListCall =>
          \A i \in DOMAIN call.ret.d.result.resources :
              ~UnderIgnoredDir(call.ret.d.result.resources[i].uri.path.parts)
    /\ (IsFileUriCall /\ UriRel.ok /\ UnderIgnoredDir(UriTarget.parts)) =>
          IsError(call.ret, -32602)

====
